---- MODULE Spec2Model ----
(***************************************************************************)
(* A model of tf_api.py: the Graph registry, the module-level              *)
(* _default_graph binding, the four node classes, topology_sort and        *)
(* Session.run.                                                            *)
(*                                                                         *)
(* Objects are numbered in construction order: a node is its index in     *)
(* `nodes`, a Graph is its index in `graphs`.  0 stands for "no object".   *)
(***************************************************************************)
EXTENDS Integers, Sequences, FiniteSets, TLC

(***************************************************************************)
(* Bounds of the model.                                                    *)
(***************************************************************************)
MaxNodes == 3
MaxGraphs == 2
MaxRunGraphs == 1
MaxHistory == 3
\* the interpreter's recursion limit, counted in nested recursive_helper calls
RecursionLimit == 5
\* the threads that call Session.run at the same time
MaxThreads == 2

(***************************************************************************)
(* Values.  A Python value is a triple <<tag, n, d>>:                      *)
(*   <<"None", 0, 0>>   None                                               *)
(*   <<"int", n, 1>>    a Python int                                       *)
(*   <<"f64", n, d>>    a numpy float64: the rational n/d in lowest terms  *)
(*                      with d > 0, or inf <<1,0>>, -inf <<-1,0>>,         *)
(*                      nan <<0,0>>.                                       *)
(* Rounding and the sign of zero are not modelled; the inputs below are    *)
(* non-negative, so no negative zero can arise.                            *)
(***************************************************************************)
None == <<"None", 0, 0>>

PyInt(n) == <<"int", n, 1>>

Abs(x) == IF x < 0 THEN -x ELSE x

Sgn(x) == IF x < 0 THEN -1 ELSE IF x > 0 THEN 1 ELSE 0

RECURSIVE Gcd(_, _)
Gcd(a, b) == IF b = 0 THEN a ELSE Gcd(b, a % b)

\* the float64 with numerator n and denominator d (d = 0: inf, -inf or nan)
F64(n, d) ==
    IF d = 0 THEN <<"f64", Sgn(n), 0>>
    ELSE LET g == Gcd(Abs(n), Abs(d))
             s == Sgn(d)
         IN  <<"f64", (s * n) \div g, (s * d) \div g>>

IsNone(v) == v[1] = "None"

\* the values the model passes to Constant() and Variable(), and assigns
InputValues == {None, PyInt(2), F64(3, 1)}

\* the values the model gives to placeholders in feed_dict
FeedValues == {PyInt(0), F64(3, 1)}

(***************************************************************************)
(* Outcome of a call: the exception raised ("" when none) and the value    *)
(* returned.                                                               *)
(***************************************************************************)
Return(v) == [raised |-> "", value |-> v]

Raise(e) == [raised |-> e, value |-> None]

(***************************************************************************)
(* The kernels.  a and b are the values of the two inputs.                 *)
(***************************************************************************)
\* a + b on numbers
num_add(a, b) ==
    IF a[1] = "int" /\ b[1] = "int" THEN PyInt(a[2] + b[2])
    ELSE IF a[3] = 0 /\ b[3] = 0
         THEN (IF a[2] = b[2] THEN F64(a[2], 0) ELSE F64(0, 0))
    ELSE IF a[3] = 0 THEN F64(a[2], 0)
    ELSE IF b[3] = 0 THEN F64(b[2], 0)
    ELSE F64(a[2] * b[3] + b[2] * a[3], a[3] * b[3])

\* a * b on numbers
num_mul(a, b) ==
    IF a[1] = "int" /\ b[1] = "int" THEN PyInt(a[2] * b[2])
    ELSE F64(a[2] * b[2], a[3] * b[3])

\* np.true_divide(a, b) on numbers: always a float64, x/0 is inf or nan
num_true_divide(a, b) ==
    F64(a[2] * b[3] * (IF b[2] < 0 THEN -1 ELSE 1), a[3] * Abs(b[2]))

add_forward(a, b) ==
    IF IsNone(a) \/ IsNone(b) THEN Raise("TypeError") ELSE Return(num_add(a, b))

multiply_forward(a, b) ==
    IF IsNone(a) \/ IsNone(b) THEN Raise("TypeError") ELSE Return(num_mul(a, b))

divide_forward(a, b) ==
    IF IsNone(a) \/ IsNone(b) THEN Raise("TypeError")
    ELSE Return(num_true_divide(a, b))

\* a.dot(b): None and Python ints have no attribute dot
matmul_forward(a, b) ==
    IF a[1] # "f64" THEN Raise("AttributeError")
    ELSE IF IsNone(b) THEN Raise("TypeError")
    ELSE Return(F64(a[2] * b[2], a[3] * b[3]))

(***************************************************************************)
(* The state.                                                              *)
(*   graphs         the Graph objects: four lists of nodes each            *)
(*   default_graph  the global _default_graph; 0 while the name is unbound *)
(*   nodes          the node objects: type is the class, input_nodes the   *)
(*                  list given to Operation.__init__, value the stored     *)
(*                  value, output the output attribute (None when unset);  *)
(*                  an attribute the class does not have (input_nodes of   *)
(*                  a leaf, value of an operation) is never read and is    *)
(*                  held as NoInputNodes or None                           *)
(*   call           the last call made by the user code and how it ended:  *)
(*                  its name, the object it was made on (a new node for a  *)
(*                  constructor), the feed_dict, the exception raised and  *)
(*                  the value returned; for a run also the nodes whose     *)
(*                  output was set before the call (cached) and those of   *)
(*                  them whose output the call has changed (overwritten)   *)
(*   history        history variable, kept by RecordedRun only: the runs   *)
(*                  made since the last assignment to a Variable, in order *)
(*   threads        the Session.run call each thread is in: pc is its      *)
(*                  position ("idle" before its first call, "walk" in the   *)
(*                  loop, "done" once the call has ended), operation and    *)
(*                  feed_dict its arguments, nodes_sorted and i the locals  *)
(*                  of the loop, raised and value how it ended; walked     *)
(*                  (the nodes whose iteration it has executed) and raced  *)
(*                  (another thread has assigned the output of one of its  *)
(*                  nodes during the call) are history fields              *)
(***************************************************************************)
VARIABLES graphs, default_graph, nodes, call, history, threads

vars == <<graphs, default_graph, nodes, call, history, threads>>

Threads == 1..MaxThreads

\* input_nodes=None, the default argument of Operation.__init__
NoInputNodes == <<0>>

OperationClasses == {"Operation", "BinaryOperation", "add", "multiply", "divide", "matmul"}

KernelClasses == {"add", "multiply", "divide", "matmul"}

\* isinstance(node, Operation)
IsOperation(node) == nodes[node].type \in OperationClasses

Nodes == 1..Len(nodes)

NoFeed == [p \in {} |-> None]

Call(name, self, feed, outcome) ==
    [name |-> name, self |-> self, feed |-> feed,
     raised |-> outcome.raised, value |-> outcome.value,
     cached |-> {}, overwritten |-> {}]

\* Graph.__init__
Graph_init == [operations |-> <<>>, placeholders |-> <<>>,
               constants |-> <<>>, variables |-> <<>>]

\* faulty variant: the first activation stays in force
Graph_as_default_first(self) == IF default_graph = 0 THEN self ELSE default_graph

\* Graph.as_default: the value the global _default_graph is bound to
Graph_as_default(self) == self

\* faulty variant: while no graph is active the node goes to the first Graph created
Register_fallback(collection, self) ==
    LET g == IF default_graph = 0 THEN 1 ELSE default_graph
    IN  IF Len(graphs) = 0 THEN [raised |-> "NameError", graphs |-> graphs]
        ELSE [raised |-> "",
              graphs |-> [graphs EXCEPT ![g][collection] = Append(@, self)]]

\* _default_graph.<collection>.append(self), the last statement of every
\* node constructor; NameError while the global _default_graph is unbound
Register(collection, self) ==
    IF default_graph = 0 THEN [raised |-> "NameError", graphs |-> graphs]
    ELSE [raised |-> "",
          graphs |-> [graphs EXCEPT ![default_graph][collection] = Append(@, self)]]

\* Operation.__init__ (BinaryOperation.__init__ passes [a, b])
Operation_init(self, input_nodes) == Register("operations", self)

\* Placeholder.__init__
Placeholder_init(self) == Register("placeholders", self)

\* Constant.__init__
Constant_init(self, value) == Register("constants", self)

\* faulty variant: the variable is appended to the constants
Variable_init_constants(self, initial_value) == Register("constants", self)

\* Variable.__init__
Variable_init(self, initial_value) == Register("variables", self)

\* a thread that has not called Session.run
NoRun == [pc |-> "idle", operation |-> 0, feed_dict |-> NoFeed,
          nodes_sorted |-> <<>>, i |-> 0, raised |-> "", value |-> None,
          walked |-> <<>>, raced |-> FALSE]

Init ==
    /\ graphs = <<>>
    /\ default_graph = 0
    /\ nodes = <<>>
    /\ call = Call("import", 0, NoFeed, Return(None))
    /\ history = <<>>
    /\ threads = [t \in Threads |-> NoRun]

(***************************************************************************)
(* Construction of graphs and nodes.                                       *)
(***************************************************************************)
\* g = Graph()
NewGraph ==
    /\ graphs' = Append(graphs, Graph_init)
    /\ call' = Call("Graph", Len(graphs) + 1, NoFeed, Return(None))
    /\ UNCHANGED <<default_graph, nodes, history, threads>>

\* g.as_default()
AsDefault(g) ==
    /\ default_graph' = Graph_as_default(g)
    /\ call' = Call("as_default", g, NoFeed, Return(None))
    /\ UNCHANGED <<graphs, nodes, history, threads>>

\* A node constructor: the object gets its attributes, then registers.  When
\* the registration raises, the object is dropped with the exception, so it
\* never becomes a node of the model.
Construct(type, input_nodes, value, registered) ==
    /\ Len(nodes) < MaxNodes
    /\ IF registered.raised # ""
       THEN /\ call' = Call(type, 0, NoFeed, Raise(registered.raised))
            /\ UNCHANGED nodes
       ELSE /\ nodes' = Append(nodes, [type |-> type, input_nodes |-> input_nodes,
                                       value |-> value, output |-> None])
            /\ call' = Call(type, Len(nodes) + 1, NoFeed, Return(None))
    /\ graphs' = registered.graphs
    /\ UNCHANGED <<default_graph, history, threads>>

\* Operation(input_nodes), BinaryOperation(a, b), add(a, b), ...
NewOperation(type, input_nodes) ==
    Construct(type, input_nodes, None, Operation_init(Len(nodes) + 1, input_nodes))

\* Placeholder()
NewPlaceholder ==
    Construct("Placeholder", NoInputNodes, None, Placeholder_init(Len(nodes) + 1))

\* Constant(value)
NewConstant(value) ==
    Construct("Constant", NoInputNodes, value, Constant_init(Len(nodes) + 1, value))

\* Variable(initial_value)
NewVariable(initial_value) ==
    Construct("Variable", NoInputNodes, initial_value,
              Variable_init(Len(nodes) + 1, initial_value))

(***************************************************************************)
(* topology_sort: depth-first post-order from `operation`.  The state of   *)
(* the traversal is the closure's ordering and visited_nodes, and the      *)
(* number of recursive_helper calls that are active (depth): the           *)
(* interpreter raises RecursionError when a call would exceed its          *)
(* recursion limit.                                                        *)
(***************************************************************************)
RECURSIVE recursive_helper(_, _)
RECURSIVE visit_input_nodes(_, _, _)

\* faulty variant: the loop without the visited_nodes test
visit_input_nodes_unchecked(node, i, st) ==
    IF st.raised # "" \/ i > Len(nodes[node].input_nodes) THEN st
    ELSE visit_input_nodes(node, i + 1,
                           recursive_helper(nodes[node].input_nodes[i], st))

\* the loop `for input_node in node.input_nodes`, from position i on
visit_input_nodes(node, i, st) ==
    IF st.raised # "" \/ i > Len(nodes[node].input_nodes) THEN st
    ELSE LET input_node == nodes[node].input_nodes[i]
         IN  visit_input_nodes(node, i + 1,
                 IF input_node \notin st.visited_nodes
                 THEN recursive_helper(input_node, st)
                 ELSE st)

\* faulty variant: the node is appended before its input nodes are visited
recursive_helper_preorder(node, st) ==
    LET before == [st EXCEPT !.visited_nodes = @ \cup {node},
                             !.ordering = Append(@, node)]
    IN  IF IsOperation(node)
        THEN IF nodes[node].input_nodes = NoInputNodes
             THEN [st EXCEPT !.raised = "TypeError"]
             ELSE visit_input_nodes(node, 1, before)
        ELSE before

\* faulty variant: the node is marked as visited before its input nodes are
\* visited
recursive_helper_marks_first(node, st) ==
    IF st.depth >= RecursionLimit THEN [st EXCEPT !.raised = "RecursionError"]
    ELSE
    LET called == [st EXCEPT !.depth = @ + 1, !.visited_nodes = @ \cup {node}]
        after ==
            IF IsOperation(node)
            THEN IF nodes[node].input_nodes = NoInputNodes
                 THEN [called EXCEPT !.raised = "TypeError"]
                 ELSE visit_input_nodes(node, 1, called)
            ELSE called
    IN  IF after.raised # "" THEN after
        ELSE [after EXCEPT !.ordering = Append(@, node), !.depth = st.depth]

\* faulty variant: the node is not added to visited_nodes
recursive_helper_unmarked(node, st) ==
    IF st.depth >= RecursionLimit THEN [st EXCEPT !.raised = "RecursionError"]
    ELSE
    LET called == [st EXCEPT !.depth = @ + 1]
        after ==
            IF IsOperation(node)
            THEN IF nodes[node].input_nodes = NoInputNodes
                 THEN [called EXCEPT !.raised = "TypeError"]
                 ELSE visit_input_nodes(node, 1, called)
            ELSE called
    IN  IF after.raised # "" THEN after
        ELSE [after EXCEPT !.ordering = Append(@, node), !.depth = st.depth]

recursive_helper(node, st) ==
    IF st.depth >= RecursionLimit THEN [st EXCEPT !.raised = "RecursionError"]
    ELSE
    LET called == [st EXCEPT !.depth = @ + 1]
        after ==
            IF IsOperation(node)
            THEN IF nodes[node].input_nodes = NoInputNodes
                 THEN [called EXCEPT !.raised = "TypeError"]  \* None is not iterable
                 ELSE visit_input_nodes(node, 1, called)
            ELSE called
    IN  IF after.raised # "" THEN after
        ELSE [after EXCEPT !.visited_nodes = @ \cup {node},
                           !.ordering = Append(@, node),
                           !.depth = st.depth]

topology_sort(operation) ==
    recursive_helper(operation,
                     [raised |-> "", ordering |-> <<>>, visited_nodes |-> {},
                      depth |-> 0])

(***************************************************************************)
(* Session.run                                                             *)
(***************************************************************************)
\* Operation.forward(self): `pass`, and it takes no input values
Operation_forward(inputs) ==
    IF Len(inputs) = 0 THEN Return(None) ELSE Raise("TypeError")

\* node.forward(*inputs), dispatched on the class of the node
forward(type, inputs) ==
    IF type \in KernelClasses
    THEN IF Len(inputs) # 2 THEN Raise("TypeError")
         ELSE CASE type = "add" -> add_forward(inputs[1], inputs[2])
                [] type = "multiply" -> multiply_forward(inputs[1], inputs[2])
                [] type = "divide" -> divide_forward(inputs[1], inputs[2])
                [] type = "matmul" -> matmul_forward(inputs[1], inputs[2])
    ELSE Operation_forward(inputs)

\* feed_dict[node]
feed_lookup(node, feed_dict) ==
    IF node \in DOMAIN feed_dict THEN Return(feed_dict[node]) ELSE Raise("KeyError")

\* node.forward(*[node.output for node in node.input_nodes]), the outputs
\* read from the objects ns
operation_output(node, ns) ==
    IF ns[node].input_nodes = NoInputNodes THEN Raise("TypeError")
    ELSE forward(ns[node].type,
                 [i \in 1..Len(ns[node].input_nodes) |->
                      ns[ns[node].input_nodes[i]].output])

\* faulty variant: the input values are the outputs the nodes had before the call
node_output_before_call(node, feed_dict, ns) ==
    IF ns[node].type = "Placeholder" THEN feed_lookup(node, feed_dict)
    ELSE IF ns[node].type \in {"Variable", "Constant"} THEN Return(ns[node].value)
    ELSE operation_output(node, nodes)

\* faulty variant: a variable whose output is set keeps it
node_output_variable_cached(node, feed_dict, ns) ==
    IF ns[node].type = "Placeholder" THEN feed_lookup(node, feed_dict)
    ELSE IF ns[node].type = "Variable" /\ ns[node].output # None
    THEN Return(ns[node].output)
    ELSE IF ns[node].type \in {"Variable", "Constant"} THEN Return(ns[node].value)
    ELSE operation_output(node, ns)

\* faulty variant: an operation whose output is set is not computed again
node_output_memoized(node, feed_dict, ns) ==
    IF ns[node].type = "Placeholder" THEN feed_lookup(node, feed_dict)
    ELSE IF ns[node].type \in {"Variable", "Constant"} THEN Return(ns[node].value)
    ELSE IF ns[node].output # None THEN Return(ns[node].output)
    ELSE operation_output(node, ns)

\* faulty variant: a placeholder without a feed entry keeps the output it has
node_output_unfed_kept(node, feed_dict, ns) ==
    IF ns[node].type = "Placeholder"
    THEN IF node \in DOMAIN feed_dict THEN feed_lookup(node, feed_dict)
         ELSE Return(ns[node].output)
    ELSE IF ns[node].type \in {"Variable", "Constant"} THEN Return(ns[node].value)
    ELSE operation_output(node, ns)

\* faulty variant: a placeholder whose output is set keeps it
node_output_placeholder_cached(node, feed_dict, ns) ==
    IF ns[node].type = "Placeholder"
    THEN IF ns[node].output # None THEN Return(ns[node].output)
         ELSE feed_lookup(node, feed_dict)
    ELSE IF ns[node].type \in {"Variable", "Constant"} THEN Return(ns[node].value)
    ELSE operation_output(node, ns)

\* one iteration of `for node in nodes_sorted`: the value assigned to
\* node.output, read from the objects as the walk has left them (ns)
node_output(node, feed_dict, ns) ==
    IF ns[node].type = "Placeholder" THEN feed_lookup(node, feed_dict)
    ELSE IF ns[node].type \in {"Variable", "Constant"} THEN Return(ns[node].value)
    ELSE operation_output(node, ns)

RECURSIVE walk(_, _, _, _)
\* faulty variant: the value is stored in the node's value as well
walk_stores_value(nodes_sorted, i, feed_dict, ns) ==
    IF i > Len(nodes_sorted) THEN [raised |-> "", nodes |-> ns]
    ELSE LET node == nodes_sorted[i]
             out == node_output(node, feed_dict, ns)
         IN  IF out.raised # "" THEN [raised |-> out.raised, nodes |-> ns]
             ELSE walk(nodes_sorted, i + 1, feed_dict,
                       [ns EXCEPT ![node].output = out.value,
                                  ![node].value = out.value])

\* the loop `for node in nodes_sorted`, from position i on; an exception
\* ends it and leaves the outputs assigned so far
walk(nodes_sorted, i, feed_dict, ns) ==
    IF i > Len(nodes_sorted) THEN [raised |-> "", nodes |-> ns]
    ELSE LET node == nodes_sorted[i]
             out == node_output(node, feed_dict, ns)
         IN  IF out.raised # "" THEN [raised |-> out.raised, nodes |-> ns]
             ELSE walk(nodes_sorted, i + 1, feed_dict,
                       [ns EXCEPT ![node].output = out.value])

\* faulty variant: every placeholder constructed must have a feed entry
Session_run_all_fed(ns, operation, feed_dict) ==
    LET sorted == topology_sort(operation)
        done == walk(sorted.ordering, 1, feed_dict, ns)
        unfed == {p \in DOMAIN ns :
                     ns[p].type = "Placeholder" /\ p \notin DOMAIN feed_dict}
    IN  IF sorted.raised # ""
        THEN [raised |-> sorted.raised, value |-> None, nodes |-> ns]
        ELSE IF unfed # {}
        THEN [raised |-> "KeyError", value |-> None, nodes |-> ns]
        ELSE IF done.raised # ""
        THEN [raised |-> done.raised, value |-> None, nodes |-> done.nodes]
        ELSE [raised |-> "", value |-> done.nodes[operation].output,
              nodes |-> done.nodes]

\* Session.run(operation, feed_dict) on the node objects ns: the exception
\* or the value returned, and the node objects as the call leaves them
Session_run(ns, operation, feed_dict) ==
    LET sorted == topology_sort(operation)
        done == walk(sorted.ordering, 1, feed_dict, ns)
    IN  IF sorted.raised # ""
        THEN [raised |-> sorted.raised, value |-> None, nodes |-> ns]
        ELSE IF done.raised # ""
        THEN [raised |-> done.raised, value |-> None, nodes |-> done.nodes]
        ELSE [raised |-> "", value |-> done.nodes[operation].output,
              nodes |-> done.nodes]

\* Session().run(operation, feed_dict): its effect on the objects
RunCall(operation, feed_dict) ==
    LET r == Session_run(nodes, operation, feed_dict)
        cached == {n \in Nodes : nodes[n].output # None}
    IN  /\ nodes' = r.nodes
        /\ call' = [Call("run", operation, feed_dict, r) EXCEPT
                       !.cached = cached,
                       !.overwritten =
                           {n \in cached : r.nodes[n].output # nodes[n].output}]
        /\ UNCHANGED <<graphs, default_graph, threads>>

\* Session().run(operation, feed_dict)
Run(operation, feed_dict) ==
    /\ RunCall(operation, feed_dict)
    /\ UNCHANGED history

\* Session().run(operation, feed_dict), noted in the history
RecordedRun(operation, feed_dict) ==
    /\ Len(history) < MaxHistory
    /\ RunCall(operation, feed_dict)
    /\ history' = Append(history, [self |-> operation, feed |-> feed_dict,
                                    raised |-> call'.raised, value |-> call'.value])

(***************************************************************************)
(* Session.run statement by statement, for calls made by several threads.  *)
(* A thread can be preempted between two statements: after the sort,       *)
(* between two iterations of the loop, and before the return.              *)
(***************************************************************************)
\* thread t calls Session().run(operation, feed_dict):
\* nodes_sorted = topology_sort(operation)
Begin(t, operation, feed_dict) ==
    LET sorted == topology_sort(operation)
        started == [NoRun EXCEPT !.operation = operation, !.feed_dict = feed_dict]
    IN  /\ threads[t].pc \in {"idle", "done"}
        /\ threads' = [threads EXCEPT ![t] =
               IF sorted.raised # ""
               THEN [started EXCEPT !.pc = "done", !.raised = sorted.raised]
               ELSE [started EXCEPT !.pc = "walk", !.i = 1,
                                    !.nodes_sorted = sorted.ordering]]
        /\ UNCHANGED <<graphs, default_graph, nodes, call, history>>

\* thread t executes one iteration of `for node in nodes_sorted`
Step(t) ==
    LET self == threads[t]
        node == self.nodes_sorted[self.i]
        out == node_output(node, self.feed_dict, nodes)
        Shares(u) == /\ u # t /\ threads[u].pc = "walk"
                     /\ \E k \in 1..Len(threads[u].nodes_sorted) :
                           threads[u].nodes_sorted[k] = node
    IN  /\ self.pc = "walk"
        /\ self.i <= Len(self.nodes_sorted)
        /\ IF out.raised # ""
           THEN /\ threads' = [threads EXCEPT ![t].pc = "done",
                                              ![t].raised = out.raised,
                                              ![t].walked = Append(@, node)]
                /\ UNCHANGED nodes
           ELSE /\ nodes' = [nodes EXCEPT ![node].output = out.value]
                /\ threads' = [u \in Threads |->
                      IF u = t THEN [self EXCEPT !.i = @ + 1,
                                                 !.walked = Append(@, node)]
                      ELSE IF Shares(u) THEN [threads[u] EXCEPT !.raced = TRUE]
                      ELSE threads[u]]
        /\ UNCHANGED <<graphs, default_graph, call, history>>

\* thread t leaves the loop: return operation.output
Finish(t) ==
    LET self == threads[t]
    IN  /\ self.pc = "walk"
        /\ self.i > Len(self.nodes_sorted)
        /\ threads' = [threads EXCEPT ![t].pc = "done",
                                      ![t].value = nodes[self.operation].output]
        /\ UNCHANGED <<graphs, default_graph, nodes, call, history>>

\* faulty variant: the setter stores the value
Constant_value_setter_stores(self, value) == [raised |-> "", value |-> value]

\* Constant.value setter: raise ValueError("Cannot reassign value."); the
\* value the object holds afterwards
Constant_value_setter(self, value) ==
    [raised |-> "ValueError", value |-> nodes[self].value]

\* constant.value = value
SetConstantValue(self, value) ==
    LET r == Constant_value_setter(self, value)
    IN  /\ nodes[self].type = "Constant"
        /\ nodes' = [nodes EXCEPT ![self].value = r.value]
        /\ call' = Call("Constant.value", self, NoFeed,
                        IF r.raised # "" THEN Raise(r.raised) ELSE Return(None))
        /\ UNCHANGED <<graphs, default_graph, history, threads>>

\* variable.value = value: a plain attribute
SetVariableValue(self, value) ==
    /\ nodes[self].type = "Variable"
    /\ nodes' = [nodes EXCEPT ![self].value = value]
    /\ call' = Call("Variable.value", self, NoFeed, Return(None))
    /\ history' = <<>>
    /\ UNCHANGED <<graphs, default_graph, threads>>

\* operation.input_nodes = input_nodes: a plain attribute
SetInputNodes(self, input_nodes) ==
    /\ IsOperation(self)
    /\ nodes' = [nodes EXCEPT ![self].input_nodes = input_nodes]
    /\ call' = Call("Operation.input_nodes", self, NoFeed, Return(None))
    /\ UNCHANGED <<graphs, default_graph, history, threads>>

(***************************************************************************)
(* The inputs of the calls.                                                *)
(***************************************************************************)
\* the input lists given to Operation(...): none, empty, or one node
OperationInputs == {NoInputNodes, <<>>} \cup {<<a>> : a \in Nodes}

Placeholders == {n \in Nodes : nodes[n].type = "Placeholder"}

\* the targets given to Session.run: the operations
Operations == {n \in Nodes : IsOperation(n)}

\* the feed_dict arguments: any placeholders, each with a value
Feeds == UNION {[fed -> FeedValues] : fed \in SUBSET Placeholders}

(***************************************************************************)
(* Spec: graphs are built and evaluated.                                   *)
(***************************************************************************)
Next ==
    \/ Len(graphs) < MaxRunGraphs /\ NewGraph
    \/ \E g \in 1..Len(graphs) : AsDefault(g)
    \/ \E type \in KernelClasses, a, b \in Nodes : NewOperation(type, <<a, b>>)
    \/ \E input_nodes \in OperationInputs : NewOperation("Operation", input_nodes)
    \/ NewPlaceholder
    \/ \E value \in InputValues : NewConstant(value)
    \/ \E value \in InputValues : NewVariable(value)
    \/ \E operation \in Operations, feed_dict \in Feeds : Run(operation, feed_dict)
    \/ \E self \in Nodes, value \in InputValues : SetConstantValue(self, value)
    \/ \E self \in Nodes, value \in InputValues : SetVariableValue(self, value)

Spec == Init /\ [][Next]_vars

(***************************************************************************)
(* GraphSpec: several graphs are created and activated, and nodes of every *)
(* class are constructed; no node is evaluated.                            *)
(***************************************************************************)
NextGraph ==
    \/ Len(graphs) < MaxGraphs /\ NewGraph
    \/ \E g \in 1..Len(graphs) : AsDefault(g)
    \/ \E type \in OperationClasses \ {"Operation"}, a, b \in Nodes :
           NewOperation(type, <<a, b>>)
    \/ \E input_nodes \in OperationInputs : NewOperation("Operation", input_nodes)
    \/ NewPlaceholder
    \/ NewConstant(PyInt(2))
    \/ NewVariable(PyInt(2))

GraphSpec == Init /\ [][NextGraph]_vars

(***************************************************************************)
(* RepeatSpec: graphs of placeholders, variables, sums and quotients are   *)
(* built and evaluated, and the runs are noted in the history.             *)
(***************************************************************************)
NextRepeat ==
    \/ Len(graphs) < MaxRunGraphs /\ NewGraph
    \/ \E g \in 1..Len(graphs) : AsDefault(g)
    \/ \E type \in {"add", "divide"}, a, b \in Nodes : NewOperation(type, <<a, b>>)
    \/ NewPlaceholder
    \/ NewVariable(PyInt(2))
    \/ \E operation \in Operations, feed_dict \in Feeds :
           RecordedRun(operation, feed_dict)
    \/ \E self \in Nodes : SetVariableValue(self, F64(3, 1))

RepeatSpec == Init /\ [][NextRepeat]_vars

(***************************************************************************)
(* CycleSpec: operations are built over constants, their input lists are   *)
(* reassigned, which can close a cycle, and they are evaluated.            *)
(***************************************************************************)
NextCycle ==
    \/ Len(graphs) < MaxRunGraphs /\ NewGraph
    \/ \E g \in 1..Len(graphs) : AsDefault(g)
    \/ \E a, b \in Nodes : NewOperation("add", <<a, b>>)
    \/ \E input_nodes \in OperationInputs : NewOperation("Operation", input_nodes)
    \/ NewConstant(PyInt(2))
    \/ \E self \in Nodes, a, b \in Nodes : SetInputNodes(self, <<a, b>>)
    \/ \E self \in Nodes, a \in Nodes : SetInputNodes(self, <<a>>)
    \/ \E operation \in Operations : Run(operation, NoFeed)

CycleSpec == Init /\ [][NextCycle]_vars

(***************************************************************************)
(* RaceSpec: sums over placeholders and a constant are built, and the      *)
(* threads evaluate them at the same time.                                 *)
(***************************************************************************)
NextRace ==
    \/ Len(graphs) < MaxRunGraphs /\ NewGraph
    \/ \E g \in 1..Len(graphs) : AsDefault(g)
    \/ \E a, b \in Nodes : NewOperation("add", <<a, b>>)
    \/ NewPlaceholder
    \/ NewConstant(PyInt(2))
    \/ \E t \in Threads, operation \in Operations, feed_dict \in Feeds :
           Begin(t, operation, feed_dict)
    \/ \E t \in Threads : Step(t)
    \/ \E t \in Threads : Finish(t)

RaceSpec == Init /\ [][NextRace]_vars

(***************************************************************************)
(* StepSpec: one thread evaluates operations statement by statement; once  *)
(* in the loop it keeps running until the call ends.                       *)
(***************************************************************************)
NextStep ==
    \/ Len(graphs) < MaxRunGraphs /\ NewGraph
    \/ \E g \in 1..Len(graphs) : AsDefault(g)
    \/ \E type \in {"add", "divide"}, a, b \in Nodes : NewOperation(type, <<a, b>>)
    \/ \E input_nodes \in OperationInputs : NewOperation("Operation", input_nodes)
    \/ NewPlaceholder
    \/ NewConstant(PyInt(2))
    \/ \E operation \in Operations, feed_dict \in Feeds : Begin(1, operation, feed_dict)
    \/ Step(1)
    \/ Finish(1)

StepSpec == Init /\ [][NextStep]_vars /\ WF_vars(Step(1) \/ Finish(1))

(***************************************************************************)
(* Definitions used to state the properties.                               *)
(***************************************************************************)
InputsOf(node) ==
    IF IsOperation(node) /\ nodes[node].input_nodes # NoInputNodes
    THEN {nodes[node].input_nodes[i] : i \in 1..Len(nodes[node].input_nodes)}
    ELSE {}

RECURSIVE Reachable(_)
\* the nodes the target depends on, the target included
Reachable(node) == {node} \cup UNION {Reachable(n) : n \in InputsOf(node)}

\* every operation the target depends on is one of the four kernels
Concrete(target) ==
    \A n \in Reachable(target) : IsOperation(n) => nodes[n].type \in KernelClasses

\* the feed gives a value to every placeholder the target depends on
Fed(target, feed) ==
    \A n \in Reachable(target) : nodes[n].type = "Placeholder" => n \in DOMAIN feed

RECURSIVE HandValue(_, _)
\* the value of a node computed by hand: the forward function of an
\* operation applied to the hand values of its inputs, a placeholder's feed
\* entry, a constant's or variable's stored value
HandValue(node, feed) ==
    IF nodes[node].type = "Placeholder" THEN Return(feed[node])
    ELSE IF nodes[node].type \in {"Variable", "Constant"}
    THEN Return(nodes[node].value)
    ELSE LET ins == [i \in 1..Len(nodes[node].input_nodes) |->
                        HandValue(nodes[node].input_nodes[i], feed)]
             failed == {i \in DOMAIN ins : ins[i].raised # ""}
         IN  IF failed # {}
             THEN Raise(ins[CHOOSE i \in failed : \A j \in failed : i <= j].raised)
             ELSE forward(nodes[node].type, [i \in DOMAIN ins |-> ins[i].value])

Outcome(r) == [raised |-> r.raised, value |-> r.value]

(***************************************************************************)
(* C1: for an acyclic graph of constants, variables, placeholders and      *)
(* kernel operations and a feed with a value for every placeholder the     *)
(* target depends on, Session.run ends as the computation by hand does:    *)
(* it returns the hand value, or raises the exception the hand             *)
(* computation raises.                                                     *)
(***************************************************************************)
C1_RunIsHandValue ==
    (call.name = "run" /\ Concrete(call.self) /\ Fed(call.self, call.feed))
        => Outcome(call) = HandValue(call.self, call.feed)

\* a run that returned a number, of a target over another operation and a
\* placeholder
C1_Witness ==
    /\ call.name = "run" /\ call.raised = "" /\ call.value # None
    /\ Concrete(call.self) /\ Fed(call.self, call.feed)
    /\ \E n \in InputsOf(call.self) : IsOperation(n)
    /\ \E n \in Reachable(call.self) : nodes[n].type = "Placeholder"

(***************************************************************************)
(* C2: in topology_sort(root) every input node of every operation stands   *)
(* at a strictly earlier position than the operation, and the root is the  *)
(* last element.                                                           *)
(***************************************************************************)
C2_TopologicalOrder ==
    \A root \in Operations :
        LET sorted == topology_sort(root)
            ordering == sorted.ordering
        IN  sorted.raised = "" =>
              /\ Len(ordering) >= 1
              /\ ordering[Len(ordering)] = root
              /\ \A i \in 1..Len(ordering) : \A input_node \in InputsOf(ordering[i]) :
                     \E k \in 1..(i - 1) : ordering[k] = input_node

\* a run has sorted a target that has an operation among its inputs
C2_Witness ==
    /\ call.name = "run" /\ call.raised = ""
    /\ Len(topology_sort(call.self).ordering) = 3
    /\ \E n \in InputsOf(call.self) : IsOperation(n) /\ InputsOf(n) # {}

(***************************************************************************)
(* C3: topology_sort(root) holds exactly the nodes reachable from root,    *)
(* each of them once.                                                      *)
(***************************************************************************)
C3_ReachableOnce ==
    \A root \in Operations :
        LET sorted == topology_sort(root)
            ordering == sorted.ordering
        IN  sorted.raised = "" =>
              /\ {ordering[i] : i \in 1..Len(ordering)} = Reachable(root)
              /\ \A i, j \in 1..Len(ordering) : ordering[i] = ordering[j] => i = j

\* a run has sorted a target one of whose nodes is an input of two
\* operations and is listed twice by one of them
C3_Witness ==
    /\ call.name = "run" /\ call.raised = ""
    /\ \E n \in Nodes, o1, o2 \in Reachable(call.self) :
          /\ o1 # o2
          /\ n \in InputsOf(o1) /\ n \in InputsOf(o2)
          /\ nodes[o1].input_nodes = <<n, n>>
    /\ Len(topology_sort(call.self).ordering) = 3

(***************************************************************************)
(* C4: a run that returns has read the stored value every variable holds   *)
(* at that moment, and returns the value computed by hand from those       *)
(* values, whatever outputs earlier runs have left on the nodes.           *)
(***************************************************************************)
C4_RunReadsCurrentValues ==
    (call.name = "run" /\ call.raised = "") =>
        /\ \A v \in Reachable(call.self) :
               nodes[v].type = "Variable" => nodes[v].output = nodes[v].value
        /\ HandValue(call.self, call.feed) = Return(call.value)

\* a run has returned after a variable it reads was assigned a value other
\* than the output an earlier run had left on it, and the target's output
\* has changed with it
C4_Witness ==
    /\ call.name = "run" /\ call.raised = "" /\ call.value # None
    /\ call.self \in call.overwritten
    /\ \E v \in Reachable(call.self) \cap call.overwritten : nodes[v].type = "Variable"

\* the node objects with every output unset
Unset == [n \in DOMAIN nodes |-> [nodes[n] EXCEPT !.output = None]]

(***************************************************************************)
(* C5: two runs of one target with one feed, with no assignment to a       *)
(* Variable between them, end the same way, whichever runs were made       *)
(* between them; and the outcome of a run is that of the same call made    *)
(* on nodes with no output set.                                            *)
(***************************************************************************)
C5_RepeatedRunsAgree ==
    /\ \A i, j \in 1..Len(history) :
          (history[i].self = history[j].self /\ history[i].feed = history[j].feed)
              => history[i] = history[j]
    /\ call.name = "run" =>
          Outcome(Session_run(Unset, call.self, call.feed)) = Outcome(call)

\* a target was run, then another operation over a placeholder of the
\* target was run with another value for it, then the target was run again
\* with the first feed and returned a number
C5_Witness ==
    /\ Len(history) = 3
    /\ call.name = "run" /\ call.raised = "" /\ call.value # None
    /\ history[1].self = history[3].self /\ history[1].feed = history[3].feed
    /\ history[2].self # history[1].self
    /\ history[2].self \notin Reachable(history[1].self)
    /\ history[2].raised = ""
    /\ \E n \in Reachable(history[1].self) \cap Reachable(history[2].self) :
          /\ nodes[n].type = "Placeholder"
          /\ history[2].feed[n] # history[1].feed[n]
          /\ n \in call.overwritten

(***************************************************************************)
(* C6: a run whose target depends on a placeholder that has no entry in    *)
(* the feed raises an exception and returns no value.                      *)
(***************************************************************************)
C6_MissingFeedRaises ==
    (call.name = "run" /\ ~Fed(call.self, call.feed)) => call.raised # ""

\* a run has raised KeyError on an unfed placeholder that an earlier run
\* had fed, after it had set the output of another node
C6_Witness ==
    /\ call.name = "run" /\ ~Fed(call.self, call.feed) /\ call.raised = "KeyError"
    /\ \E n \in Reachable(call.self) :
          nodes[n].type = "Placeholder" /\ n \notin DOMAIN call.feed /\ n \in call.cached
    /\ call.overwritten # {}

(***************************************************************************)
(* C7: an assignment to a Constant's value raises an exception, and no     *)
(* call changes the value a Constant holds.                                *)
(***************************************************************************)
C7_ConstantImmutable ==
    [][/\ call'.name = "Constant.value" => call'.raised # ""
       /\ \A c \in Nodes :
            nodes[c].type = "Constant" => nodes'[c].value = nodes[c].value]_vars

\* an assignment to a Constant has raised ValueError after a run had read
\* the constant, which still holds its value
C7_Witness ==
    /\ call.name = "Constant.value" /\ call.raised = "ValueError"
    /\ nodes[call.self].value # None
    /\ nodes[call.self].output = nodes[call.self].value

(***************************************************************************)
(* C8: every constructed node stands exactly once in the collections of    *)
(* the graphs, in the collection of its variant; the four collections of   *)
(* a graph are pairwise disjoint and list their nodes in construction      *)
(* order (nodes are numbered in construction order).                       *)
(***************************************************************************)
Collections == {"operations", "placeholders", "constants", "variables"}

CollectionOf(type) ==
    IF type \in OperationClasses THEN "operations"
    ELSE IF type = "Placeholder" THEN "placeholders"
    ELSE IF type = "Constant" THEN "constants"
    ELSE "variables"

\* the places <<graph, collection, position>> that hold the node
Occurrences(n) ==
    {place \in (1..Len(graphs)) \X Collections \X (1..MaxNodes + 1) :
        /\ place[3] <= Len(graphs[place[1]][place[2]])
        /\ graphs[place[1]][place[2]][place[3]] = n}

Members(g, c) == {graphs[g][c][i] : i \in 1..Len(graphs[g][c])}

C8_NodesRegisteredOnce ==
    /\ \A n \in Nodes :
          /\ Cardinality(Occurrences(n)) = 1
          /\ \A place \in Occurrences(n) : place[2] = CollectionOf(nodes[n].type)
    /\ \A g \in 1..Len(graphs) :
          /\ \A c \in Collections :
                /\ Members(g, c) \subseteq Nodes
                /\ \A i, j \in 1..Len(graphs[g][c]) :
                      i < j => graphs[g][c][i] < graphs[g][c][j]
          /\ \A c1, c2 \in Collections :
                c1 # c2 => Members(g, c1) \cap Members(g, c2) = {}

\* two graphs hold nodes, one of them two nodes in one collection and a
\* node in another
C8_Witness ==
    /\ Len(graphs) = 2 /\ Len(nodes) = 3
    /\ \E g1, g2 \in 1..Len(graphs) :
          /\ g1 # g2
          /\ \E c \in Collections : Len(graphs[g1][c]) = 2
          /\ \E c \in Collections : Len(graphs[g2][c]) = 1

(***************************************************************************)
(* C9: as_default binds the current graph to the graph it is called on,    *)
(* no other call changes the binding, and a node constructed registers     *)
(* into the current graph and leaves every other graph as it was.          *)
(***************************************************************************)
C9_ActivationReplaces ==
    [][/\ call'.name = "as_default" => default_graph' = call'.self
       /\ call'.name # "as_default" => default_graph' = default_graph
       /\ Len(nodes') > Len(nodes) =>
            /\ default_graph \in 1..Len(graphs)
            /\ \E c \in Collections :
                  graphs'[default_graph][c] = Append(graphs[default_graph][c], Len(nodes'))
            /\ \A g \in 1..Len(graphs) : g # default_graph => graphs'[g] = graphs[g]]_vars

\* a node was constructed into the first graph after the second graph had
\* been current and had received an earlier node
C9_Witness ==
    /\ Len(graphs) = 2 /\ default_graph = 1
    /\ call.name = "Placeholder" /\ call.raised = ""
    /\ call.self = Len(nodes)
    /\ call.self \in Members(1, "placeholders")
    /\ \E c \in Collections : \E m \in Members(2, c) : m < call.self
    /\ \E c \in Collections : \E m \in Members(1, c) :
          \E c2 \in Collections : \E m2 \in Members(2, c2) : m < m2

NodeClasses == OperationClasses \cup {"Placeholder", "Constant", "Variable"}

(***************************************************************************)
(* C10: while no graph has been activated (_default_graph is unbound)      *)
(* every node constructor raises an exception, there is no node, and every *)
(* collection of every graph created is empty.                             *)
(***************************************************************************)
C10_NoNodeWithoutGraph ==
    default_graph = 0 =>
        /\ call.name \in NodeClasses => call.raised # ""
        /\ nodes = <<>>
        /\ \A g \in 1..Len(graphs) : graphs[g] = Graph_init

\* Variable() has raised NameError while two graphs exist and none is active
C10_Witness ==
    /\ default_graph = 0 /\ Len(graphs) = 2
    /\ call.name = "Variable" /\ call.raised = "NameError"
    /\ nodes = <<>>

(***************************************************************************)
(* C11: a run whose target is an instance of the base class Operation,     *)
(* which has no forward of its own, raises an exception and returns no     *)
(* value, whatever the number of its input nodes, zero included.           *)
(***************************************************************************)
C11_AbstractForwardRaises ==
    (call.name = "run" /\ nodes[call.self].type = "Operation") => call.raised # ""

(***************************************************************************)
(* C12: for every operation with no input node, constructed with an empty  *)
(* list or with the default input_nodes argument, topology_sort returns    *)
(* the sequence that holds the operation alone.                            *)
(***************************************************************************)
C12_ZeroInputsSingleton ==
    \A root \in Operations :
        nodes[root].input_nodes \in {<<>>, NoInputNodes} =>
            /\ topology_sort(root).raised = ""
            /\ topology_sort(root).ordering = <<root>>

(***************************************************************************)
(* C14: a run, whether it returns or raises, leaves the collections of     *)
(* every graph, the current graph, the number and classes of the nodes,    *)
(* the input list of every operation and the stored value of every node    *)
(* as they were; the only attribute it assigns is the output of nodes the  *)
(* target depends on.                                                      *)
(***************************************************************************)
C14_RunKeepsStructure ==
    [][call'.name = "run" =>
          /\ graphs' = graphs
          /\ default_graph' = default_graph
          /\ Len(nodes') = Len(nodes)
          /\ \A n \in Nodes :
                /\ nodes'[n].type = nodes[n].type
                /\ nodes'[n].input_nodes = nodes[n].input_nodes
                /\ nodes'[n].value = nodes[n].value
                /\ n \notin Reachable(call'.self) =>
                       nodes'[n].output = nodes[n].output]_vars

\* a run has raised after it had changed the output of a node, and an
\* operation the target does not depend on holds the output of an earlier run
C14_Witness ==
    /\ call.name = "run" /\ call.raised # "" /\ call.overwritten # {}
    /\ \E n \in Operations \ Reachable(call.self) : nodes[n].output # None
    /\ \E g \in 1..Len(graphs) : Len(graphs[g].operations) = 2

(***************************************************************************)
(* C15: a run that raises leaves the output of every node as it was        *)
(* before the call.                                                        *)
(***************************************************************************)
C15_FailedRunAtomic ==
    [][(call'.name = "run" /\ call'.raised # "") =>
          \A n \in Nodes : nodes'[n].output = nodes[n].output]_vars

\* the feeds agree on the placeholders the target depends on
SameOnReachable(target, feed1, feed2) ==
    \A p \in Reachable(target) \cap Placeholders :
        /\ p \in DOMAIN feed1 <=> p \in DOMAIN feed2
        /\ p \in DOMAIN feed1 => feed1[p] = feed2[p]

(***************************************************************************)
(* C18: a run does not raise KeyError when the feed has a value for every  *)
(* placeholder the target depends on, and it ends the same way for every   *)
(* feed that agrees with the one given on those placeholders, whatever     *)
(* entries the feeds hold for other placeholders.                          *)
(***************************************************************************)
C18_UnreachableUnfed ==
    call.name = "run" =>
        /\ Fed(call.self, call.feed) => call.raised # "KeyError"
        /\ \A feed2 \in Feeds :
               SameOnReachable(call.self, call.feed, feed2) =>
                   Outcome(Session_run(Unset, call.self, feed2)) = Outcome(call)

\* a run has returned a number from a placeholder it was fed, while another
\* placeholder of the same graph, which the target does not depend on, has
\* no entry in the feed
C18_Witness ==
    /\ call.name = "run" /\ call.raised = "" /\ call.value # None
    /\ \E p \in Reachable(call.self) \cap Placeholders : p \in DOMAIN call.feed
    /\ \E p \in Placeholders \ Reachable(call.self), g \in 1..Len(graphs) :
          /\ p \notin DOMAIN call.feed
          /\ p \in Members(g, "placeholders")
          /\ call.self \in Members(g, "operations")

RECURSIVE Within(_, _)
\* the nodes of S and those reached from them over at most k inputs
Within(S, k) ==
    IF k = 0 THEN S ELSE Within(S \cup UNION {InputsOf(n) : n \in S}, k - 1)

\* the nodes the node depends on, itself included only when it is on a cycle
Descendants(node) == Within(InputsOf(node), Len(nodes))

\* a cycle can be reached from the root
Cyclic(root) == \E n \in {root} \cup Descendants(root) : n \in Descendants(n)

(***************************************************************************)
(* C13: when a cycle can be reached from the root, topology_sort returns   *)
(* no ordering and reports no cycle: the recursion descends until the      *)
(* interpreter's recursion limit ends it with RecursionError, unless it    *)
(* meets an operation whose input_nodes is None first; a run of such a     *)
(* target ends with the same exception.                                    *)
(***************************************************************************)
C13_CycleNeverSorted ==
    /\ \A root \in Operations :
          Cyclic(root) =>
              /\ topology_sort(root).raised \in {"RecursionError", "TypeError"}
              /\ topology_sort(root).raised = "TypeError" =>
                     \E n \in Descendants(root) :
                         IsOperation(n) /\ nodes[n].input_nodes = NoInputNodes
    /\ (call.name = "run" /\ Cyclic(call.self)) =>
          call.raised = topology_sort(call.self).raised

\* a run has ended with RecursionError on a target that depends on a cycle
\* of two operations and is not itself on a cycle
C13_Witness ==
    /\ call.name = "run" /\ call.raised = "RecursionError"
    /\ call.self \notin Descendants(call.self)
    /\ \E a, b \in Descendants(call.self) :
          a # b /\ b \in InputsOf(a) /\ a \in InputsOf(b) /\ a \notin InputsOf(a)

\* how the call of thread t has ended
Ended(t) == [raised |-> threads[t].raised, value |-> threads[t].value]

\* how the call of thread t ends when no other call is made and no output
\* is set
Alone(t) == Outcome(Session_run(Unset, threads[t].operation, threads[t].feed_dict))

(***************************************************************************)
(* C16: calls of Session.run made at the same time race on the outputs of  *)
(* the nodes they share: a call ends as it does alone with its own feed    *)
(* unless another thread has assigned the output of one of its nodes       *)
(* during the call; that a call of the same target with another feed can   *)
(* make it return another value is the state C16_Witness.                  *)
(***************************************************************************)
C16_RaceOnOutputs ==
    \A t \in Threads :
        (threads[t].pc = "done" /\ ~threads[t].raced) => Ended(t) = Alone(t)

\* two threads have run the same target with different feeds, and one of
\* them has returned a value that is not the value it returns alone
C16_Witness ==
    \E t, u \in Threads :
        /\ t # u
        /\ threads[t].pc = "done" /\ threads[u].pc = "done"
        /\ threads[t].raised = "" /\ threads[u].raised = ""
        /\ threads[t].operation = threads[u].operation
        /\ threads[t].feed_dict # threads[u].feed_dict
        /\ threads[t].raced
        /\ Alone(t).raised = "" /\ threads[t].value # Alone(t).value

NoRepeats(seq) == \A j, k \in 1..Len(seq) : seq[j] = seq[k] => j = k

\* the sort of the call has listed every node the target depends on once,
\* and the loop has executed the iteration of each node at most once, in
\* that order: of all of them when the call has returned
WalkedOnce(t) ==
    LET self == threads[t]
    IN  IF self.pc = "idle" THEN TRUE
        ELSE IF topology_sort(self.operation).raised # ""
        THEN self.pc = "done" /\ self.raised # "" /\ self.walked = <<>>
        ELSE /\ NoRepeats(self.nodes_sorted)
             /\ {self.nodes_sorted[k] : k \in 1..Len(self.nodes_sorted)}
                    = Reachable(self.operation)
             /\ NoRepeats(self.walked)
             /\ Len(self.walked) <= Len(self.nodes_sorted)
             /\ \A k \in 1..Len(self.walked) : self.walked[k] = self.nodes_sorted[k]
             /\ self.pc = "walk" => Len(self.walked) = self.i - 1
             /\ (self.pc = "done" /\ self.raised = "") =>
                    self.walked = self.nodes_sorted

(***************************************************************************)
(* C17: on an acyclic graph a call of Session.run that has started ends,   *)
(* by returning or by raising; its sort lists every node the target        *)
(* depends on once, and the loop computes the output of each at most once, *)
(* of all of them exactly once when the call returns, so forward is        *)
(* invoked at most once for each operation.                                *)
(***************************************************************************)
C17_RunFinishes ==
    /\ []WalkedOnce(1)
    /\ (threads[1].pc = "walk") ~> (threads[1].pc = "done")

\* a call has returned a number after three iterations, over a node that is
\* an input of two operations
C17_Witness ==
    /\ threads[1].pc = "done" /\ threads[1].raised = ""
    /\ threads[1].value # None
    /\ Len(threads[1].walked) = 3
    /\ \E n \in Nodes, o1, o2 \in Operations :
          o1 # o2 /\ n \in InputsOf(o1) /\ n \in InputsOf(o2)

====
